---- MODULE Spec2Model ----
(***************************************************************************)
(* State-machine model of pdf_bookmark_tool.py: one run of                 *)
(* add_bookmarks_to_pdf (parse_bookmark_file, create_bookmark_tree, the    *)
(* advisory page check and the outline attachment walk).                   *)
(*                                                                         *)
(* A line of the bookmark file is a sequence of one-character strings.     *)
(* The forest built by create_bookmark_tree is an arena: node i is the     *)
(* dict appended for the i-th record, a list reference is 0 for the root   *)
(* list and i for the 'children' list of node i, so that the aliasing of   *)
(* Python lists in the parents stack is kept.                              *)
(***************************************************************************)
EXTENDS Integers, Sequences, FiniteSets, TLC

\* ---------------------------------------------------------------- bounds
MaxLines == 4
MaxLineLen == 6
MaxOffset == 1
MaxPages == 2
MaxShift == 2

\* ------------------------------------------------------------ characters
Digits == {"0", "1", "2", "3"}
Whitespace == {" "}
IsDigit(c) == c \in Digits
IsSpace(c) == c \in Whitespace

DigitVal(c) == CASE c = "0" -> 0 [] c = "1" -> 1 [] c = "2" -> 2 [] c = "3" -> 3

\* int(str) of a run of decimal digits
RECURSIVE ToInt(_)
ToInt(ds) ==
  IF ds = <<>> THEN 0
  ELSE 10 * ToInt(SubSeq(ds, 1, Len(ds) - 1)) + DigitVal(ds[Len(ds)])

\* str.strip()
RECURSIVE LStrip(_)
LStrip(s) == IF s # <<>> /\ IsSpace(Head(s)) THEN LStrip(Tail(s)) ELSE s
RECURSIVE RStrip(_)
RStrip(s) ==
  IF s # <<>> /\ IsSpace(s[Len(s)]) THEN RStrip(SubSeq(s, 1, Len(s) - 1)) ELSE s
Strip(s) == RStrip(LStrip(s))

\* ------------------------------------------- re.match(r'^(\d+)\s+(.+?)\s+(\d+)$')
AllDigits(s, a, b) == \A x \in a..b : IsDigit(s[x])
AllSpaces(s, a, b) == \A x \in a..b : IsSpace(s[x])

\* <<i, j, k, l>>: group 1 is s[1..i], the first \s+ is s[i+1..j], group 2 is
\* s[j+1..k], the second \s+ is s[k+1..l] and group 3 is s[l+1..Len(s)].
Splits(s) ==
  LET n == Len(s) IN
  UNION { UNION { UNION { { <<i, j, k, l>> :
              l \in { l \in (k + 1)..(n - 1) :
                        AllSpaces(s, k + 1, l) /\ AllDigits(s, l + 1, n) } } :
            k \in (j + 1)..(n - 2) } :
          j \in { j \in (i + 1)..(n - 3) : AllSpaces(s, i + 1, j) } } :
        i \in { i \in 1..(n - 4) : AllDigits(s, 1, i) } }

\* The order in which the backtracking matcher tries the splits: \d+ and \s+
\* are greedy (longest first), .+? is lazy (shortest first).
TriedBefore(t, u) ==
  \/ t[1] > u[1]
  \/ t[1] = u[1] /\ t[2] > u[2]
  \/ t[1] = u[1] /\ t[2] = u[2] /\ t[3] < u[3]
  \/ t[1] = u[1] /\ t[2] = u[2] /\ t[3] = u[3] /\ t[4] > u[4]

Matches(s) == Splits(s) # {}
FirstSplit(s) ==
  CHOOSE t \in Splits(s) : \A u \in Splits(s) : u = t \/ TriedBefore(t, u)

Group1(s) == SubSeq(s, 1, FirstSplit(s)[1])
Group2(s) == SubSeq(s, FirstSplit(s)[2] + 1, FirstSplit(s)[3])
Group3(s) == SubSeq(s, FirstSplit(s)[4] + 1, Len(s))

\* ------------------------------------------------------ parse_bookmark_file
\* mutant: the adjusted page is clamped at 0 while parsing
AdjustedPage_clamped(page, page_offset) ==
  IF page + page_offset - 1 < 0 THEN 0 ELSE page + page_offset - 1

AdjustedPage(page, page_offset) == page + page_offset - 1

\* mutant: comment lines are not skipped
IsSkipped_blankOnly(line) == line = <<>>

IsSkipped(line) == line = <<>> \/ Head(line) = "#"

MakeRecord(line, page_offset) ==
  [level |-> ToInt(Group1(line)),
   title |-> Group2(line),
   page  |-> AdjustedPage(ToInt(Group3(line)), page_offset)]

\* One iteration of the loop over the file, on the accumulator
\* [bookmarks, warnings]; warnings are the lines printed as ignored.
ParseLine(acc, raw, page_offset) ==
  LET line == Strip(raw) IN
  IF IsSkipped(line) THEN acc
  ELSE IF Matches(line)
       THEN [acc EXCEPT !.bookmarks = Append(@, MakeRecord(line, page_offset))]
       ELSE [acc EXCEPT !.warnings = Append(@, line)]

RECURSIVE ParseLines(_, _, _)
ParseLines(acc, lines, page_offset) ==
  IF lines = <<>> THEN acc
  ELSE ParseLines(ParseLine(acc, Head(lines), page_offset), Tail(lines), page_offset)

parse_bookmark_file(lines, page_offset) ==
  ParseLines([bookmarks |-> <<>>, warnings |-> <<>>], lines, page_offset)

\* ---------------------------------------------------- create_bookmark_tree
\* mutant: every node is created with an empty 'children' list
NewNode_emptyChildren(bookmark) ==
  [title |-> bookmark.title, page |-> bookmark.page,
   hasChildren |-> TRUE, children |-> <<>>]

NewNode(bookmark) ==
  [title |-> bookmark.title, page |-> bookmark.page,
   hasChildren |-> FALSE, children |-> <<>>]

\* The list a reference of the parents stack denotes.
ListOf(st, ref) == IF ref = 0 THEN st.root ELSE st.nodes[ref].children

\* mutant: the first item of the top list becomes the parent
Descend_firstItem(st) ==
  LET lst == ListOf(st, st.parents[Len(st.parents)]) IN
  IF Len(lst) > 0
  THEN LET first_item == lst[1] IN
       [st EXCEPT !.nodes[first_item].children =
                      IF st.nodes[first_item].hasChildren THEN @ ELSE <<>>,
                  !.nodes[first_item].hasChildren = TRUE,
                  !.parents = Append(@, first_item)]
  ELSE st

\* level > prev_level
Descend(st) ==
  LET lst == ListOf(st, st.parents[Len(st.parents)]) IN
  IF Len(lst) > 0
  THEN LET last_item == lst[Len(lst)] IN
       [st EXCEPT !.nodes[last_item].children =
                      IF st.nodes[last_item].hasChildren THEN @ ELSE <<>>,
                  !.nodes[last_item].hasChildren = TRUE,
                  !.parents = Append(@, last_item)]
  ELSE st

\* mutant: a single parents.pop() instead of the loop
Ascend_popOnce(st, n) ==
  IF 1 > Len(st.parents)
  THEN [st EXCEPT !.exc = TRUE, !.parents = <<>>]
  ELSE [st EXCEPT !.parents = SubSeq(@, 1, Len(@) - 1)]

\* mutant: the range of the pop loop is empty
Ascend_noPop(st, n) == st

\* level < prev_level: n times parents.pop(); pop from an empty list raises,
\* after the pops that emptied it
Ascend(st, n) ==
  IF n > Len(st.parents)
  THEN [st EXCEPT !.exc = TRUE, !.parents = <<>>]
  ELSE [st EXCEPT !.parents = SubSeq(@, 1, Len(@) - n)]

\* mutant: the node is appended to the root list, not to parents[-1]
AppendNode_toRoot(st, bookmark) ==
  IF st.parents = <<>>
  THEN [st EXCEPT !.exc = TRUE]
  ELSE [st EXCEPT !.nodes = Append(@, NewNode(bookmark)),
                  !.root = Append(@, Len(st.nodes) + 1)]

\* parents[-1].append({...}); parents[-1] of an empty stack raises
AppendNode(st, bookmark) ==
  IF st.parents = <<>>
  THEN [st EXCEPT !.exc = TRUE]
  ELSE LET top == st.parents[Len(st.parents)]
           id  == Len(st.nodes) + 1
           ns  == Append(st.nodes, NewNode(bookmark)) IN
       IF top = 0
       THEN [st EXCEPT !.nodes = ns, !.root = Append(@, id)]
       ELSE [st EXCEPT !.nodes = [ns EXCEPT ![top].children = Append(@, id)]]

\* mutant: the descent is taken for level >= prev_level
BuildStep_descendOnEqual(st, bookmark) ==
  LET s1 == IF bookmark.level >= st.prev_level THEN Descend(st)
            ELSE Ascend(st, st.prev_level - bookmark.level)
      s2 == IF s1.exc THEN s1 ELSE AppendNode(s1, bookmark) IN
  IF s2.exc THEN s2 ELSE [s2 EXCEPT !.prev_level = bookmark.level]

\* One iteration of the loop over the records.
BuildStep(st, bookmark) ==
  LET s1 == IF bookmark.level > st.prev_level THEN Descend(st)
            ELSE IF bookmark.level < st.prev_level
                 THEN Ascend(st, st.prev_level - bookmark.level)
                 ELSE st
      s2 == IF s1.exc THEN s1 ELSE AppendNode(s1, bookmark) IN
  IF s2.exc THEN s2 ELSE [s2 EXCEPT !.prev_level = bookmark.level]

\* mutant: prev_level starts at 1
EmptyTree_prevOne ==
  [nodes |-> <<>>, root |-> <<>>, parents |-> <<0>>, prev_level |-> 1, exc |-> FALSE]

EmptyTree ==
  [nodes |-> <<>>, root |-> <<>>, parents |-> <<0>>, prev_level |-> 0, exc |-> FALSE]

RECURSIVE BuildAll(_, _)
BuildAll(st, bs) ==
  IF bs = <<>> \/ st.exc THEN st ELSE BuildAll(BuildStep(st, Head(bs)), Tail(bs))

create_bookmark_tree(bs) == BuildAll(EmptyTree, bs)

\* ---------------------------------------------------- add_bookmarks_to_pdf
\* mutant: the empty record list is not detected
NoBookmarks_never(bs) == FALSE

NoBookmarks(bs) == bs = <<>>

\* mutant: the upper bound of the advisory check is off by one
OutOfRange_offByOne(page, total) == page < 0 \/ page > total

OutOfRange(page, total) == page < 0 \/ page >= total

Min(a, b) == IF a < b THEN a ELSE b
Max(a, b) == IF a > b THEN a ELSE b
ClampPage(page, total) == Max(0, Min(page, total - 1))

\* mutant: the exception is not caught
ExceptResult_uncaught == "raised"

\* except Exception: print the error, return False
ExceptResult == "False"


\* ------------------------------------------------------------------ inputs
\* Concrete bookmark-file lines of a run: records of level 0..3, a comment
\* line and a line that does not match the pattern.
RecordLineSet ==
  { <<"0", " ", "a", " ", "1">>,
    <<"1", " ", "a", " ", "1">>,
    <<"2", " ", "b", " ", "2">>,
    <<"3", " ", "c", " ", "1">> }

LineSet == RecordLineSet \cup { <<"#", " ", "c">>, <<"a", " ", "1">> }

SeqsUpTo(S, n) == UNION { [1..m -> S] : m \in 0..n }

Offsets == (0 - MaxOffset)..MaxOffset
PageCounts == 0..MaxPages

\* The bookmark files of a run: up to MaxLines record lines, or fewer lines
\* of any kind.
Files == SeqsUpTo(RecordLineSet, MaxLines) \cup SeqsUpTo(LineSet, MaxLines - 2)

\* Every line of at most MaxLineLen characters over a five-character alphabet.
ParseAlphabet == {"0", "1", " ", "a", "#"}
AllLines == SeqsUpTo(ParseAlphabet, MaxLineLen)

\* ------------------------------------------------------------------- state
VARIABLES
  file,            \* the lines of bookmark_file
  page_offset,     \* the page_offset argument
  doc_pages,       \* number of pages of input_pdf
  pc,              \* position in add_bookmarks_to_pdf
  bookmarks,       \* the flat records
  parse_warnings,  \* lines reported as ignored by parse_bookmark_file
  nodes,           \* create_bookmark_tree: the dicts appended so far
  root,            \* create_bookmark_tree: the root list
  parents,         \* create_bookmark_tree: the stack of list references
  prev_level,      \* create_bookmark_tree: prev_level
  bi,              \* create_bookmark_tree: index of the next record
  doc_read,        \* PdfReader(input_pdf) has been constructed
  total_pages,     \* len(reader.pages)
  range_warnings,  \* indices of the records warned as out of range
  writer_pages,    \* pages added to the writer
  outline,         \* the add_outline_item calls made, in order
  walk,            \* call stack of the attachment walk
  written,         \* writer.write(f) on output_pdf has happened
  result,          \* "running", or what the call returned / raised
  message,         \* the final status line printed
  main_pc,         \* position in main; "direct" when main is not the caller
  argc,            \* len(sys.argv)
  offset_arg,      \* sys.argv[4], <<>> when absent
  input_exists,    \* os.path.exists(input_pdf)
  bookmark_exists, \* os.path.exists(bookmark_file)
  exists_checked,  \* the paths os.path.exists was called on
  main_message     \* what main printed before returning early

vars == <<file, page_offset, doc_pages, pc, bookmarks, parse_warnings, nodes,
          root, parents, prev_level, bi, doc_read, total_pages, range_warnings,
          writer_pages, outline, walk, written, result, message, main_pc,
          argc, offset_arg, input_exists, bookmark_exists, exists_checked,
          main_message>>

mainVars == <<main_pc, argc, offset_arg, input_exists, bookmark_exists,
              exists_checked, main_message>>
inputVars == <<file, page_offset, doc_pages, mainVars>>
parseVars == <<bookmarks, parse_warnings>>
treeVars == <<nodes, root, parents, prev_level, bi>>
pdfVars == <<doc_read, total_pages, range_warnings, writer_pages, outline, walk, written>>

TreeState ==
  [nodes |-> nodes, root |-> root, parents |-> parents,
   prev_level |-> prev_level, exc |-> FALSE]

InitLocals ==
  /\ bookmarks = <<>>
  /\ parse_warnings = <<>>
  /\ nodes = EmptyTree.nodes
  /\ root = EmptyTree.root
  /\ parents = EmptyTree.parents
  /\ prev_level = EmptyTree.prev_level
  /\ bi = 1
  /\ doc_read = FALSE
  /\ total_pages = 0
  /\ range_warnings = <<>>
  /\ writer_pages = 0
  /\ outline = <<>>
  /\ walk = <<>>
  /\ written = FALSE
  /\ result = "running"
  /\ message = "none"

\* add_bookmarks_to_pdf is called directly, not through main
NoMain ==
  /\ main_pc = "direct"
  /\ argc = 0
  /\ offset_arg = <<>>
  /\ input_exists = TRUE
  /\ bookmark_exists = TRUE
  /\ exists_checked = {}
  /\ main_message = "none"

InitRun ==
  /\ pc = "parse"
  /\ InitLocals
  /\ NoMain

Init ==
  /\ file \in Files
  /\ page_offset \in Offsets
  /\ doc_pages \in PageCounts
  /\ InitRun

\* ----------------------------------------------------------------- actions
\* bookmarks = parse_bookmark_file(bookmark_file, page_offset)
ParseFile ==
  /\ pc = "parse"
  /\ LET r == parse_bookmark_file(file, page_offset) IN
       /\ bookmarks' = r.bookmarks
       /\ parse_warnings' = r.warnings
  /\ pc' = "parsed"
  /\ UNCHANGED <<inputVars, treeVars, pdfVars, result, message>>

\* if not bookmarks: print, return False
ReturnEmpty ==
  /\ pc = "parsed"
  /\ NoBookmarks(bookmarks)
  /\ pc' = "done"
  /\ result' = "False"
  /\ message' = "empty"
  /\ UNCHANGED <<inputVars, parseVars, treeVars, pdfVars>>

\* entering create_bookmark_tree(bookmarks)
EnterBuild ==
  /\ pc = "parsed"
  /\ ~NoBookmarks(bookmarks)
  /\ pc' = "build"
  /\ nodes' = EmptyTree.nodes
  /\ root' = EmptyTree.root
  /\ parents' = EmptyTree.parents
  /\ prev_level' = EmptyTree.prev_level
  /\ bi' = 1
  /\ UNCHANGED <<inputVars, parseVars, pdfVars, result, message>>

\* one iteration of the loop of create_bookmark_tree that completes
BuildRecord ==
  /\ pc = "build"
  /\ bi <= Len(bookmarks)
  /\ LET st == BuildStep(TreeState, bookmarks[bi]) IN
       /\ ~st.exc
       /\ nodes' = st.nodes
       /\ root' = st.root
       /\ parents' = st.parents
       /\ prev_level' = st.prev_level
  /\ bi' = bi + 1
  /\ UNCHANGED <<inputVars, parseVars, pdfVars, pc, result, message>>

\* one iteration that raises IndexError, caught by the except clause of
\* add_bookmarks_to_pdf; parents is left as the pops made it
BuildRaise ==
  /\ pc = "build"
  /\ bi <= Len(bookmarks)
  /\ LET st == BuildStep(TreeState, bookmarks[bi]) IN
       /\ st.exc
       /\ parents' = st.parents
  /\ pc' = "done"
  /\ result' = ExceptResult
  /\ message' = "error"
  /\ UNCHANGED <<inputVars, parseVars, nodes, root, prev_level, bi, pdfVars>>

\* return root
BuildReturn ==
  /\ pc = "build"
  /\ bi > Len(bookmarks)
  /\ pc' = "read"
  /\ UNCHANGED <<inputVars, parseVars, treeVars, pdfVars, result, message>>

\* reader = PdfReader(input_pdf); writer = PdfWriter(); total_pages = ...
ReadPdf ==
  /\ pc = "read"
  /\ doc_read' = TRUE
  /\ total_pages' = doc_pages
  /\ pc' = "check"
  /\ UNCHANGED <<inputVars, parseVars, treeVars, range_warnings, writer_pages,
                 outline, walk, written, result, message>>

\* the advisory loop over the flat records
WarnedRecords(bs, total) ==
  LET RECURSIVE Scan(_, _)
      Scan(i, acc) ==
        IF i > Len(bs) THEN acc
        ELSE Scan(i + 1, IF OutOfRange(bs[i].page, total) THEN Append(acc, i) ELSE acc)
  IN Scan(1, <<>>)

CheckPages ==
  /\ pc = "check"
  /\ range_warnings' = WarnedRecords(bookmarks, total_pages)
  /\ pc' = "copy"
  /\ UNCHANGED <<inputVars, parseVars, treeVars, doc_read, total_pages,
                 writer_pages, outline, walk, written, result, message>>

\* Frames whose list is exhausted return to their caller.
RECURSIVE Unwind(_, _, _)
Unwind(frames, ns, rt) ==
  IF frames = <<>> THEN frames
  ELSE LET f == frames[Len(frames)]
           lst == IF f.list = 0 THEN rt ELSE ns[f.list].children IN
       IF f.idx > Len(lst)
       THEN Unwind(SubSeq(frames, 1, Len(frames) - 1), ns, rt)
       ELSE frames

\* for page in reader.pages: writer.add_page(page); then the loop over the
\* roots starts
CopyPages ==
  /\ pc = "copy"
  /\ writer_pages' = total_pages
  /\ walk' = Unwind(<<[list |-> 0, idx |-> 1, parent |-> 0]>>, nodes, root)
  /\ pc' = "attach"
  /\ UNCHANGED <<inputVars, parseVars, treeVars, doc_read, total_pages,
                 range_warnings, outline, written, result, message>>

\* mutant: the recursion is given the caller's parent, not the new handle
AttachNode_outerParent ==
  /\ pc = "attach"
  /\ walk # <<>>
  /\ LET d == Len(walk)
         f == walk[d]
         lst == IF f.list = 0 THEN root ELSE nodes[f.list].children
         id == lst[f.idx]
         handle == Len(outline) + 1
         call == [title |-> nodes[id].title,
                  page |-> ClampPage(nodes[id].page, total_pages),
                  parent |-> f.parent,
                  handle |-> handle,
                  kept |-> nodes[id].hasChildren,
                  node |-> id]
         advanced == [walk EXCEPT ![d].idx = @ + 1]
         pushed == IF nodes[id].hasChildren
                   THEN Append(advanced, [list |-> id, idx |-> 1, parent |-> f.parent])
                   ELSE advanced
     IN /\ outline' = Append(outline, call)
        /\ walk' = Unwind(pushed, nodes, root)
  /\ UNCHANGED <<inputVars, parseVars, treeVars, doc_read, total_pages,
                 range_warnings, writer_pages, written, pc, result, message>>

\* one add_outline_item call of the loop over the roots (parent 0: none
\* given) or of add_bookmarks_recursively
AttachNode ==
  /\ pc = "attach"
  /\ walk # <<>>
  /\ LET d == Len(walk)
         f == walk[d]
         lst == IF f.list = 0 THEN root ELSE nodes[f.list].children
         id == lst[f.idx]
         handle == Len(outline) + 1
         call == [title |-> nodes[id].title,
                  page |-> ClampPage(nodes[id].page, total_pages),
                  parent |-> f.parent,
                  handle |-> handle,
                  kept |-> nodes[id].hasChildren,
                  node |-> id]
         advanced == [walk EXCEPT ![d].idx = @ + 1]
         pushed == IF nodes[id].hasChildren
                   THEN Append(advanced, [list |-> id, idx |-> 1, parent |-> handle])
                   ELSE advanced
     IN /\ outline' = Append(outline, call)
        /\ walk' = Unwind(pushed, nodes, root)
  /\ UNCHANGED <<inputVars, parseVars, treeVars, doc_read, total_pages,
                 range_warnings, writer_pages, written, pc, result, message>>

\* with open(output_pdf, 'wb') as f: writer.write(f); print; return True
WritePdf ==
  /\ pc = "attach"
  /\ walk = <<>>
  /\ written' = TRUE
  /\ result' = "True"
  /\ message' = "success"
  /\ pc' = "done"
  /\ UNCHANGED <<inputVars, parseVars, treeVars, doc_read, total_pages,
                 range_warnings, writer_pages, outline, walk>>

Next ==
  \/ ParseFile
  \/ ReturnEmpty
  \/ EnterBuild
  \/ BuildRecord
  \/ BuildRaise
  \/ BuildReturn
  \/ ReadPdf
  \/ CheckPages
  \/ CopyPages
  \/ AttachNode
  \/ WritePdf

Spec == Init /\ [][Next]_vars

\* ------------------------------------------- parse_bookmark_file on its own
InitParse ==
  /\ file \in { <<l>> : l \in AllLines } \cup SeqsUpTo(LineSet, MaxLines - 1)
  /\ page_offset \in Offsets
  /\ doc_pages = 1
  /\ InitRun

SpecParse == InitParse /\ [][ParseFile]_vars


\* --------------------------------------------------------------------- main
\* int(sys.argv[4]): surrounding whitespace, an optional sign, decimal digits
IntBody(s) ==
  LET t == Strip(s) IN
  IF t # <<>> /\ Head(t) \in {"+", "-"} THEN Tail(t) ELSE t

PyIntOk(s) == IntBody(s) # <<>> /\ AllDigits(IntBody(s), 1, Len(IntBody(s)))

PyIntVal(s) ==
  IF Strip(s) # <<>> /\ Head(Strip(s)) = "-"
  THEN 0 - ToInt(IntBody(s))
  ELSE ToInt(IntBody(s))

\* mutant: only the lower bound of the argument count is tested
ArgcValid_noUpper(n) == ~(n < 4)

\* not (len(sys.argv) < 4 or len(sys.argv) > 5)
ArgcValid(n) == ~(n < 4 \/ n > 5)

\* Command lines: the script name and up to five arguments.
ArgCounts == 1..6
OffsetArgs ==
  { <<"1">>, <<"-", "1">>, <<"+", "2">>, <<" ", "0">>,
    <<"x">>, <<>>, <<"1", "x">>, <<"-">> }
MainFiles == SeqsUpTo(RecordLineSet, 2) \cup { << <<"#", " ", "c">> >> }

InitMain ==
  /\ main_pc = "args"
  /\ argc \in ArgCounts
  /\ offset_arg \in (IF argc >= 5 THEN OffsetArgs ELSE { <<>> })
  /\ input_exists \in BOOLEAN
  /\ bookmark_exists \in BOOLEAN
  /\ exists_checked = {}
  /\ main_message = "none"
  /\ file \in MainFiles
  /\ page_offset = 0
  /\ doc_pages \in PageCounts
  /\ pc = "idle"
  /\ InitLocals

runVars == <<file, doc_pages, pc, parseVars, treeVars, pdfVars, result, message>>

\* if len(sys.argv) < 4 or len(sys.argv) > 5: print usage; return
\* otherwise the paths are read and page_offset = 0
CheckArgs ==
  /\ main_pc = "args"
  /\ IF ArgcValid(argc)
     THEN main_pc' = "offset" /\ main_message' = main_message
     ELSE main_pc' = "returned" /\ main_message' = "usage"
  /\ page_offset' = 0
  /\ UNCHANGED <<runVars, argc, offset_arg, input_exists, bookmark_exists,
                 exists_checked>>

\* if len(sys.argv) == 5: try page_offset = int(sys.argv[4])
\* except ValueError: print; return
ParseOffsetArg ==
  /\ main_pc = "offset"
  /\ IF argc = 5
     THEN IF PyIntOk(offset_arg)
          THEN /\ page_offset' = PyIntVal(offset_arg)
               /\ main_pc' = "check_input"
               /\ main_message' = main_message
          ELSE /\ page_offset' = page_offset
               /\ main_pc' = "returned"
               /\ main_message' = "bad_offset"
     ELSE /\ page_offset' = page_offset
          /\ main_pc' = "check_input"
          /\ main_message' = main_message
  /\ UNCHANGED <<runVars, argc, offset_arg, input_exists, bookmark_exists,
                 exists_checked>>

\* if not os.path.exists(input_pdf): print; return
CheckInputExists ==
  /\ main_pc = "check_input"
  /\ exists_checked' = exists_checked \cup {"input_pdf"}
  /\ IF input_exists
     THEN main_pc' = "check_bookmark" /\ main_message' = main_message
     ELSE main_pc' = "returned" /\ main_message' = "no_input"
  /\ UNCHANGED <<runVars, page_offset, argc, offset_arg, input_exists,
                 bookmark_exists>>

\* if not os.path.exists(bookmark_file): print; return
CheckBookmarkExists ==
  /\ main_pc = "check_bookmark"
  /\ exists_checked' = exists_checked \cup {"bookmark_file"}
  /\ IF bookmark_exists
     THEN main_pc' = "call" /\ main_message' = main_message
     ELSE main_pc' = "returned" /\ main_message' = "no_bookmark_file"
  /\ UNCHANGED <<runVars, page_offset, argc, offset_arg, input_exists,
                 bookmark_exists>>

\* add_bookmarks_to_pdf(input_pdf, output_pdf, bookmark_file, page_offset)
CallAddBookmarks ==
  /\ main_pc = "call"
  /\ pc = "idle"
  /\ pc' = "parse"
  /\ main_pc' = "in_call"
  /\ UNCHANGED <<file, page_offset, doc_pages, parseVars, treeVars, pdfVars,
                 result, message, argc, offset_arg, input_exists,
                 bookmark_exists, exists_checked, main_message>>

\* the call returns and main ends
MainReturn ==
  /\ main_pc = "in_call"
  /\ pc = "done"
  /\ main_pc' = "returned"
  /\ UNCHANGED <<runVars, page_offset, argc, offset_arg, input_exists,
                 bookmark_exists, exists_checked, main_message>>

NextMain ==
  \/ CheckArgs
  \/ ParseOffsetArg
  \/ CheckInputExists
  \/ CheckBookmarkExists
  \/ CallAddBookmarks
  \/ MainReturn
  \/ Next

SpecMain == InitMain /\ [][NextMain]_vars

\* ============================================================ properties
\* --------------------------------------------------------------- helpers
RecLevels == [i \in 1..Len(bookmarks) |-> bookmarks[i].level]

\* create_bookmark_tree has returned its forest
BuildCompleted ==
  pc \in {"read", "check", "copy", "attach"} \/ (pc = "done" /\ message = "success")

\* the run is past create_bookmark_tree, whether it returned or raised
PastBuild == pc \in {"read", "check", "copy", "attach", "done"} /\ bookmarks # <<>>

\* the indices of 1..n that satisfy P, ascending
SelectIdx(n, P(_)) ==
  LET RECURSIVE F(_)
      F(i) == IF i > n THEN <<>> ELSE (IF P(i) THEN <<i>> ELSE <<>>) \o F(i + 1)
  IN F(1)

SeqRange(q) == { q[x] : x \in 1..Len(q) }

\* the node whose 'children' list holds node i, 0 when i is in the root list
ParentOf(i) ==
  IF \E p \in 1..Len(nodes) : i \in SeqRange(nodes[p].children)
  THEN CHOOSE p \in 1..Len(nodes) : i \in SeqRange(nodes[p].children)
  ELSE 0

RECURSIVE NodeDepth(_)
NodeDepth(i) == IF ParentOf(i) = 0 THEN 1 ELSE 1 + NodeDepth(ParentOf(i))

MaxLevel == CHOOSE m \in SeqRange(RecLevels) : \A x \in SeqRange(RecLevels) : x <= m

\* node i is the node of record i
NodesAreRecords ==
  /\ Len(nodes) = Len(bookmarks)
  /\ \A i \in 1..Len(nodes) :
       nodes[i].title = bookmarks[i].title /\ nodes[i].page = bookmarks[i].page

\* --------------------------------------------------------------------- C1
\* C1 (as stated): a record whose level exceeds the previous record's level
\* by more than one becomes a child of the previous record with no synthetic
\* node, and for levels 1,3,1 the build returns [A{children:[B]}, C].
C1_LevelJumpForest ==
  /\ BuildCompleted =>
       /\ NodesAreRecords
       /\ \A i \in 2..Len(bookmarks) :
            RecLevels[i] > RecLevels[i - 1] + 1 => ParentOf(i) = i - 1
  /\ (PastBuild /\ RecLevels = <<1, 3, 1>>) =>
       /\ BuildCompleted
       /\ root = <<1, 3>>
       /\ nodes[1].children = <<2>>
       /\ nodes[2].children = <<>>
       /\ nodes[3].children = <<>>

\* --------------------------------------------------------------------- C2
WellFormedLevels ==
  /\ Len(bookmarks) >= 1
  /\ RecLevels[1] = 1
  /\ \A i \in 2..Len(bookmarks) :
       RecLevels[i] >= 1 /\ RecLevels[i] <= RecLevels[i - 1] + 1

\* nearest preceding record of level k-1; 0 for a record of level 1
RefParent(i) ==
  IF RecLevels[i] = 1 THEN 0
  ELSE CHOOSE j \in 1..(i - 1) :
         /\ RecLevels[j] = RecLevels[i] - 1
         /\ \A x \in (j + 1)..(i - 1) : RecLevels[x] # RecLevels[i] - 1

RefChildren(p) == SelectIdx(Len(bookmarks), LAMBDA i : RefParent(i) = p)

\* C2: when the first level is 1 and every increase is +1, the build
\* completes and returns the reference forest: roots are the level-1 records
\* in input order, the children of a record are the records whose nearest
\* preceding record one level up it is, in input order.
C2_ReferenceForest ==
  (PastBuild /\ WellFormedLevels) =>
    /\ BuildCompleted
    /\ NodesAreRecords
    /\ root = RefChildren(0)
    /\ \A p \in 1..Len(nodes) : nodes[p].children = RefChildren(p)

C2_Witness ==
  /\ pc = "done"
  /\ message = "success"
  /\ RecLevels = <<1, 2, 2, 1>>
  /\ root = <<1, 4>>
  /\ nodes[1].children = <<2, 3>>

\* --------------------------------------------------------------------- C3
\* C3: no exception escapes add_bookmarks_to_pdf: a run past parsing that has
\* not returned can take its next step, a finished run returned True or False, and a run
\* whose tree build fails returns False with no attach call made and the
\* output not written.
C3_NoExceptionEscapes ==
  /\ result \in {"running", "True", "False"}
  /\ pc \notin {"parse", "done"} => ENABLED Next
  /\ pc = "done" => result \in {"True", "False"}
  /\ (pc # "parse" /\ create_bookmark_tree(bookmarks).exc) =>
       /\ outline = <<>>
       /\ ~written
       /\ pc = "done" => result = "False"

C3_Witness ==
  /\ pc = "done"
  /\ result = "False"
  /\ message = "error"
  /\ create_bookmark_tree(bookmarks).exc
  /\ RecLevels = <<2, 1>>

\* --------------------------------------------------------------------- C4
ExpectedIndex(page, total) ==
  IF page < 0 THEN 0 ELSE IF page >= total THEN total - 1 ELSE page

\* C4 (as stated): every page index passed to add_outline_item lies in
\* [0, total_pages-1] and is the adjusted page, 0 or total_pages-1.
C4_AttachedPageInRange ==
  \A k \in 1..Len(outline) :
    /\ outline[k].page \in 0..(total_pages - 1)
    /\ outline[k].page = ExpectedIndex(nodes[outline[k].node].page, total_pages)

\* --------------------------------------------------------------------- C5
LeadRun(t) ==
  CHOOSE a \in 0..Len(t) :
    /\ \A x \in 1..a : IsDigit(t[x])
    /\ a < Len(t) => ~IsDigit(t[a + 1])
TrailRun(t) ==
  CHOOSE b \in 0..Len(t) :
    /\ \A x \in (Len(t) - b + 1)..Len(t) : IsDigit(t[x])
    /\ b < Len(t) => ~IsDigit(t[Len(t) - b])

\* <level> <title> <page>: a run of digits, whitespace, a non-empty title,
\* whitespace, a run of digits
GrammarLine(t) ==
  /\ LeadRun(t) >= 1
  /\ TrailRun(t) >= 1
  /\ Len(t) - LeadRun(t) - TrailRun(t) >= 3
  /\ IsSpace(t[LeadRun(t) + 1])
  /\ IsSpace(t[Len(t) - TrailRun(t)])

BlankOrComment(t) == t = <<>> \/ t[1] = "#"

Trimmed == [i \in 1..Len(file) |-> Strip(file[i])]

\* C5: when no line of the file is a record line, the run returns False and
\* never reads the document, attaches nothing and never writes the output.
C5_EmptyAborts ==
  (pc # "parse" /\ \A i \in 1..Len(file) : ~GrammarLine(Trimmed[i])) =>
    /\ bookmarks = <<>>
    /\ pc \in {"parsed", "done"}
    /\ ~doc_read
    /\ outline = <<>>
    /\ ~written
    /\ pc = "done" => result = "False"

C5_Witness ==
  /\ pc = "done"
  /\ result = "False"
  /\ message = "empty"
  /\ \E i \in 1..Len(file) : BlankOrComment(Trimmed[i])
  /\ \E i \in 1..Len(file) : ~BlankOrComment(Trimmed[i])

\* --------------------------------------------------------------------- C6
RecordLines == SelectIdx(Len(file), LAMBDA i : GrammarLine(Trimmed[i]))
BadLines ==
  SelectIdx(Len(file),
            LAMBDA i : ~BlankOrComment(Trimmed[i]) /\ ~GrammarLine(Trimmed[i]))

\* C6: the records are exactly the lines matching the grammar, in line
\* order; one warning per non-blank, non-comment line that does not match,
\* and nothing for blank and comment lines.
C6_ParseTolerant ==
  pc # "parse" =>
    /\ Len(bookmarks) = Len(RecordLines)
    /\ \A r \in 1..Len(bookmarks) :
         LET t == Trimmed[RecordLines[r]] IN
         bookmarks[r].level = ToInt(SubSeq(t, 1, LeadRun(t)))
    /\ Len(parse_warnings) = Len(BadLines)
    /\ \A w \in 1..Len(parse_warnings) : parse_warnings[w] = Trimmed[BadLines[w]]

C6_Witness ==
  /\ pc = "parsed"
  /\ Len(file) = 3
  /\ Len(bookmarks) = 1
  /\ Len(parse_warnings) = 1
  /\ GrammarLine(Trimmed[3])

\* --------------------------------------------------------------------- C7
\* C7: the page of a record is the written page + offset - 1, unclamped;
\* level and title are those parsed with offset 0.
C7_OffsetArithmetic ==
  pc # "parse" =>
    LET base == parse_bookmark_file(file, 0).bookmarks IN
    /\ Len(base) = Len(bookmarks)
    /\ Len(bookmarks) = Len(RecordLines)
    /\ \A r \in 1..Len(bookmarks) :
         LET t == Trimmed[RecordLines[r]]
             p == ToInt(SubSeq(t, Len(t) - TrailRun(t) + 1, Len(t))) IN
         /\ bookmarks[r].page = p + page_offset - 1
         /\ bookmarks[r].level = base[r].level
         /\ bookmarks[r].title = base[r].title

C7_Witness ==
  /\ pc = "parsed"
  /\ page_offset = 0 - 1
  /\ \E r \in 1..Len(bookmarks) : bookmarks[r].page = 0 - 1
  /\ \E r \in 1..Len(bookmarks) : bookmarks[r].page = 0

\* --------------------------------------------------------------------- C8
AttachStageReached == pc = "attach" \/ (pc = "done" /\ doc_read)

\* C8: one advisory warning per record whose adjusted page is outside
\* [0, total_pages-1] and none for the others; every record is attached
\* once all the same and the run writes the output and returns True.
C8_WarningsAdvisory ==
  AttachStageReached =>
    /\ range_warnings =
         SelectIdx(Len(bookmarks),
                   LAMBDA i : ~(bookmarks[i].page \in 0..(total_pages - 1)))
    /\ pc = "done" =>
         /\ result = "True"
         /\ written
         /\ \A i \in 1..Len(bookmarks) :
              Cardinality({k \in 1..Len(outline) : outline[k].node = i}) = 1

C8_Witness ==
  /\ pc = "done"
  /\ result = "True"
  /\ total_pages >= 1
  /\ \E i \in SeqRange(range_warnings) : bookmarks[i].page < 0
  /\ \E i \in 1..Len(bookmarks) :
       i \notin SeqRange(range_warnings) /\ outline[i].page = bookmarks[i].page

\* --------------------------------------------------------------------- C9
\* C9 (as stated): the depth of a returned forest is at most the largest
\* level among the records.
C9_DepthAtMostMaxLevel ==
  BuildCompleted => \A i \in 1..Len(nodes) : NodeDepth(i) <= MaxLevel

\* C9 (amended): the same, for sequences whose first record has level >= 1.
C9_DepthAtMostMaxLevelFromOne ==
  (BuildCompleted /\ RecLevels[1] >= 1) =>
     \A i \in 1..Len(nodes) : NodeDepth(i) <= MaxLevel

C9_Witness ==
  /\ BuildCompleted
  /\ RecLevels[1] >= 1
  /\ MaxLevel = 3
  /\ \E i \in 1..Len(nodes) : NodeDepth(i) = 3

\* -------------------------------------------------------------------- C10
\* C10: a node has a 'children' list iff it has a child, and the walker
\* keeps the handle of a call exactly for the nodes that have children.
C10_ChildrenIffParent ==
  /\ BuildCompleted =>
       \A i \in 1..Len(nodes) : nodes[i].hasChildren <=> nodes[i].children # <<>>
  /\ \A k \in 1..Len(outline) :
       outline[k].kept <=> nodes[outline[k].node].children # <<>>

C10_Witness ==
  /\ pc = "done"
  /\ message = "success"
  /\ \E k \in 1..Len(outline) : outline[k].kept
  /\ \E k \in 1..Len(outline) : ~outline[k].kept


\* -------------------------------------------------------------------- C11
\* What int() makes of the offset arguments of the command lines.
IntegerArgs ==
  { <<"1">>, <<"-", "1">>, <<"+", "2">>, <<" ", "0">> }
IntegerArgValue(a) ==
  CASE a = <<"1">> -> 1
    [] a = <<"-", "1">> -> 0 - 1
    [] a = <<"+", "2">> -> 2
    [] a = <<" ", "0">> -> 0

RunStarted == pc # "idle"

\* C11: main starts add_bookmarks_to_pdf only with 3 or 4 arguments, an
\* integer offset when one is given, and both files present; a non-integer
\* offset ends the run before any existence check, a missing file ends it
\* before parsing; without an offset argument the offset is 0.
C11_MainGuards ==
  /\ RunStarted =>
       /\ argc \in {4, 5}
       /\ argc = 5 => offset_arg \in IntegerArgs
       /\ input_exists /\ bookmark_exists
       /\ exists_checked = {"input_pdf", "bookmark_file"}
       /\ page_offset = IF argc = 5 THEN IntegerArgValue(offset_arg) ELSE 0
  /\ ~RunStarted => bookmarks = <<>> /\ ~doc_read /\ ~written /\ outline = <<>>
  /\ (argc = 5 /\ offset_arg \notin IntegerArgs) =>
       ~RunStarted /\ exists_checked = {}
  /\ (~input_exists \/ ~bookmark_exists) => ~RunStarted
  /\ main_pc = "returned" =>
       (RunStarted <=> /\ argc \in {4, 5}
                       /\ argc = 5 => offset_arg \in IntegerArgs
                       /\ input_exists /\ bookmark_exists)

C11_Witness ==
  /\ main_pc = "returned"
  /\ argc = 5
  /\ offset_arg = <<"-", "1">>
  /\ page_offset = 0 - 1
  /\ result = "True"


\* -------------------------------------------------------------------- C12
AllLevelsEqual ==
  Len(bookmarks) >= 1 /\ \A i \in 1..Len(bookmarks) : RecLevels[i] = RecLevels[1]

\* C12: when all records have the same level, the build returns one flat
\* root list with one leaf per record, in input order.
C12_EqualLevelsFlat ==
  (PastBuild /\ AllLevelsEqual) =>
    /\ BuildCompleted
    /\ NodesAreRecords
    /\ root = [i \in 1..Len(bookmarks) |-> i]
    /\ \A i \in 1..Len(nodes) : ~nodes[i].hasChildren /\ nodes[i].children = <<>>

C12_Witness ==
  /\ pc = "done"
  /\ message = "success"
  /\ RecLevels = <<3, 3, 3>>
  /\ root = <<1, 2, 3>>

\* -------------------------------------------------------------------- C13
Shift(bs, k) == [i \in 1..Len(bs) |-> [bs[i] EXCEPT !.level = @ + k]]

\* C13: adding a constant k >= 0 to every level gives the same outcome as
\* the build of the run: the same forest, or a failure in both cases; the
\* first record is a root.
C13_ShiftInvariant ==
  PastBuild =>
    /\ \A k \in 0..MaxShift :
         LET t == create_bookmark_tree(Shift(bookmarks, k)) IN
         /\ t.exc <=> message = "error"
         /\ ~t.exc => BuildCompleted /\ t.nodes = nodes /\ t.root = root
    /\ BuildCompleted => root # <<>> /\ root[1] = 1

C13_Witness ==
  /\ pc = "done"
  /\ message = "success"
  /\ RecLevels = <<0, 1, 2, 0>>
  /\ root = <<1, 4>>
  /\ create_bookmark_tree(Shift(bookmarks, 2)).root = <<1, 4>>


\* -------------------------------------------------------------------- C14
\* an iteration of the loop of create_bookmark_tree is about to run
AtRecord == pc = "build" /\ bi <= Len(bookmarks)

StackDelta ==
  LET level == bookmarks[bi].level
      top == IF parents[Len(parents)] = 0 THEN root
             ELSE nodes[parents[Len(parents)]].children IN
  IF level > prev_level THEN (IF top # <<>> THEN 1 ELSE 0)
  ELSE IF level < prev_level THEN 0 - (prev_level - level)
  ELSE 0

\* the node of record i is the last element of the list on top of the stack
OnTopOfStack(ps, ns, rt, i) ==
  /\ ps # <<>>
  /\ LET lst == IF ps[Len(ps)] = 0 THEN rt ELSE ns[ps[Len(ps)]].children IN
     lst # <<>> /\ lst[Len(lst)] = i

RecordStep ==
  /\ Len(parents') = Len(parents) + StackDelta
  /\ Len(nodes') = Len(nodes) + 1
  /\ OnTopOfStack(parents', nodes', root', bi)
  /\ prev_level' = bookmarks[bi].level

\* C14 (as stated): every record changes the size of the parents stack by
\* +1, 0 or -(prev_level - level), its node is then appended to the list on
\* top of the stack and prev_level becomes its level; a completed build
\* still has the root list at the bottom of the stack.
C14_StackDiscipline ==
  /\ [](BuildCompleted => parents # <<>> /\ parents[1] = 0)
  /\ [][AtRecord => RecordStep]_vars


\* -------------------------------------------------------------------- C15
\* the nodes of a list of the forest and of their subtrees, in pre-order
RECURSIVE PreOrder(_)
PreOrder(lst) ==
  IF lst = <<>> THEN <<>>
  ELSE <<Head(lst)>> \o PreOrder(nodes[Head(lst)].children) \o PreOrder(Tail(lst))

\* the list that holds node i
HomeList(i) == IF ParentOf(i) = 0 THEN root ELSE nodes[ParentOf(i)].children

\* the element after node i in its list, 0 when i is the last one
NextSibling(i) ==
  LET lst == HomeList(i)
      x == CHOOSE x \in 1..Len(lst) : lst[x] = i IN
  IF x < Len(lst) THEN lst[x + 1] ELSE 0

\* C15: the calls are made in pre-order of the forest; a root is attached
\* with no parent handle, any other node with the handle returned for its
\* tree parent, after its parent and before its parent's next sibling.
C15_PreOrderHandles ==
  /\ Len(outline) <= Len(PreOrder(root))
  /\ \A k \in 1..Len(outline) :
       LET c == outline[k]
           p == ParentOf(c.node) IN
       /\ c.node = PreOrder(root)[k]
       /\ p = 0 => c.parent = 0
       /\ p # 0 =>
            /\ \E j \in 1..(k - 1) :
                 /\ outline[j].node = p
                 /\ outline[j].kept
                 /\ outline[j].handle = c.parent
            /\ \A m \in 1..k : outline[m].node # NextSibling(p)
  /\ (pc = "done" /\ message = "success") => Len(outline) = Len(PreOrder(root))

C15_Witness ==
  /\ pc = "done"
  /\ message = "success"
  /\ RecLevels = <<1, 2, 3, 1>>
  /\ outline[3].parent = outline[2].handle
  /\ outline[2].parent = outline[1].handle
  /\ outline[4].parent = 0

\* -------------------------------------------------------------------- C16
\* C16: when the build succeeds there is one call per record, in record
\* order, and the output is written only after the last call.
C16_CallsInRecordOrder ==
  /\ [](/\ Len(outline) <= Len(bookmarks)
        /\ \A k \in 1..Len(outline) :
             outline[k].node = k /\ outline[k].title = bookmarks[k].title
        /\ written => Len(outline) = Len(bookmarks)
        /\ (pc = "done" /\ BuildCompleted) =>
             written /\ Len(outline) = Len(bookmarks))
  /\ [][written => outline' = outline]_vars

C16_Witness ==
  /\ pc = "done"
  /\ written
  /\ Len(outline) = 4
  /\ RecLevels = <<1, 1, 2, 1>>
  /\ \A k \in 1..4 : outline[k].node = k

\* -------------------------------------------------------------------- C17
TopList == IF parents[Len(parents)] = 0 THEN root ELSE nodes[parents[Len(parents)]].children

\* C17: when a record other than the first has a level above the previous
\* one, the top list is non-empty and ends with the node of the preceding
\* record, which has no children yet, so the record becomes its first
\* child; the top list is empty on a level increase only for the first
\* record.
C17_DescendUnderPrevious ==
  /\ (AtRecord /\ bi > 1 /\ bookmarks[bi].level > prev_level) =>
       /\ TopList # <<>>
       /\ TopList[Len(TopList)] = bi - 1
       /\ ~nodes[bi - 1].hasChildren
       /\ nodes[bi - 1].children = <<>>
  /\ (AtRecord /\ bookmarks[bi].level > prev_level /\ TopList = <<>>) => bi = 1
  /\ \A i \in 2..Len(nodes) :
       RecLevels[i] > RecLevels[i - 1] =>
         nodes[i - 1].children # <<>> /\ nodes[i - 1].children[1] = i

C17_Witness ==
  /\ AtRecord
  /\ bi = 3
  /\ bookmarks[3].level > prev_level + 1
  /\ Len(parents) = 2
  /\ TopList = <<2>>

====
